---- MODULE Spec2Model ----
(***************************************************************************)
(* Model of drf_autodocs/endpoint.py: the Endpoint descriptor builder.     *)
(*                                                                         *)
(* Python strings are modelled as sequences of one-character strings, so   *)
(* that splitting, matching, stripping and concatenation are computed the  *)
(* way the code computes them.  Python dicts are functions whose domain is *)
(* the set of keys; where the code iterates a dict the model keeps the     *)
(* insertion order in a sequence of pairs.                                 *)
(***************************************************************************)
EXTENDS Integers, Sequences, FiniteSets, TLC

VARIABLES
    counter,    \* Endpoint.counter (class attribute)
    ids,        \* the values of self.id, in the order they were assigned
    last,       \* the latest construction: its inputs and what it produced
    tpc,        \* per thread: position inside Endpoint.__init__
    tid,        \* per thread: self.id of the Endpoint under construction
    treg,       \* per thread: the value loaded by `Endpoint.counter += 1`
    tbuilt,     \* per thread: number of constructions completed
    doc,        \* text handed to _parse_docs_to_map
    parsed,     \* whether _parse_docs_to_map has returned
    sections,   \* the dict _parse_docs_to_map returned
    route,      \* arguments of _get_complete_path
    routed,     \* whether _get_complete_path has returned
    complete_path, \* what _get_complete_path returned
    serializer, \* argument of _get_serializer_fields
    resolved,   \* whether _get_serializer_fields has returned
    fields      \* what _get_serializer_fields returned

vars == <<counter, ids, last, tpc, tid, treg, tbuilt, doc, parsed, sections,
          route, routed, complete_path, serializer, resolved, fields>>

ctorVars == <<counter, ids, last>>
threadVars == <<tpc, tid, treg, tbuilt>>
parseVars == <<doc, parsed, sections>>
pathVars == <<route, routed, complete_path>>
fieldVars == <<serializer, resolved, fields>>

----------------------------------------------------------------------------
(* Bounds of the model.                                                    *)

MaxLines == 3       \* lines of a generated docstring
MaxBuilds == 2      \* Endpoint constructions in one run
MaxThreads == 3     \* threads constructing Endpoints concurrently
MaxPerThread == 2   \* constructions per thread
MaxFields == 2      \* fields of a generated serializer

----------------------------------------------------------------------------
(* Python str operations.                                                  *)

LowerLetters == <<"a", "b", "c", "d", "e", "f", "g", "h", "i", "j", "k", "l", "m",
                  "n", "o", "p", "q", "r", "s", "t", "u", "v", "w", "x", "y", "z">>
UpperLetters == <<"A", "B", "C", "D", "E", "F", "G", "H", "I", "J", "K", "L", "M",
                  "N", "O", "P", "Q", "R", "S", "T", "U", "V", "W", "X", "Y", "Z">>
Range(s) == {s[i] : i \in DOMAIN s}
LowerSet == Range(LowerLetters)
UpperSet == Range(UpperLetters)
Letters == LowerSet \cup UpperSet
Digits == {"0", "1", "2", "3", "4", "5", "6", "7", "8", "9"}
HeaderNameChars == Letters \cup Digits \cup {"_"}
Whitespace == {" ", "\t", "\n", "\r", "\f"}

\* str.upper() and str.lower(), one character at a time
UpperOf ==
    [c \in LowerSet |->
        UpperLetters[CHOOSE i \in DOMAIN LowerLetters : LowerLetters[i] = c]]
LowerOf ==
    [c \in UpperSet |->
        LowerLetters[CHOOSE i \in DOMAIN UpperLetters : UpperLetters[i] = c]]
UpperChar(c) == IF c \in LowerSet THEN UpperOf[c] ELSE c
LowerChar(c) == IF c \in UpperSet THEN LowerOf[c] ELSE c
upper(s) == [i \in DOMAIN s |-> UpperChar(s[i])]
lower(s) == [i \in DOMAIN s |-> LowerChar(s[i])]

\* str.lstrip(chars), str.rstrip(chars) and str.strip()
RECURSIVE lstrip(_, _)
lstrip(s, chars) ==
    IF s # <<>> /\ Head(s) \in chars THEN lstrip(Tail(s), chars) ELSE s
RECURSIVE rstrip(_, _)
rstrip(s, chars) ==
    IF s # <<>> /\ s[Len(s)] \in chars
    THEN rstrip(SubSeq(s, 1, Len(s) - 1), chars)
    ELSE s
strip(s) == lstrip(rstrip(s, Whitespace), Whitespace)

\* str.replace(old, new) for a one-character old
RECURSIVE replace(_, _, _)
replace(s, old, new) ==
    IF s = <<>> THEN <<>>
    ELSE (IF Head(s) = old THEN new ELSE <<Head(s)>>) \o replace(Tail(s), old, new)

\* str.splitlines(): breaks at \n, \r, \r\n and \f (of the other boundaries, \v and
\* the separators above \x1b, none occurs in the texts used here); no empty last line
RECURSIVE SplitFrom(_, _, _)
SplitFrom(s, cur, started) ==
    IF s = <<>> THEN (IF started THEN <<cur>> ELSE <<>>)
    ELSE IF Head(s) = "\r" /\ Len(s) > 1 /\ s[2] = "\n"
         THEN <<cur>> \o SplitFrom(Tail(Tail(s)), <<>>, FALSE)
    ELSE IF Head(s) \in {"\n", "\r", "\f"}
         THEN <<cur>> \o SplitFrom(Tail(s), <<>>, FALSE)
    ELSE SplitFrom(Tail(s), Append(cur, Head(s)), TRUE)
splitlines(s) == SplitFrom(s, <<>>, FALSE)

\* str.partition(sep) for a one-character sep: <<before, sep, after>>
partition(s, sep) ==
    IF \E i \in DOMAIN s : s[i] = sep
    THEN LET k == CHOOSE i \in DOMAIN s :
                      s[i] = sep /\ \A j \in 1..(i - 1) : s[j] # sep
         IN <<SubSeq(s, 1, k - 1), <<sep>>, SubSeq(s, k + 1, Len(s))>>
    ELSE <<s, <<>>, <<>>>>

\* whether `sub` occurs in `s` (Python: sub in s)
Contains(s, sub) ==
    \E i \in 1..(Len(s) - Len(sub) + 1) : SubSeq(s, i, i + Len(sub) - 1) = sub

----------------------------------------------------------------------------
(* The docstring section parser.                                           *)

\* self.header_regex.match(line) with '^[a-zA-Z][0-9A-Za-z_]*:'
header_regex_match(line) ==
    /\ Len(line) >= 2
    /\ line[1] \in Letters
    /\ \E k \in 2..Len(line) :
          /\ line[k] = ":"
          /\ \A j \in 2..(k - 1) : line[j] \in HeaderNameChars

\* sections[key] = value
DictSet(d, key, value) ==
    [k \in DOMAIN d \cup {key} |-> IF k = key THEN value ELSE d[k]]

EmptySections == [k \in {<<>>} |-> <<>>]

\* the value a header line stores: lead.strip()
HeaderBody(lead) == strip(lead)

\* AppendLine with the line trimmed and no newline kept in front of it
AppendLineTrimmed(body, line) == body \o strip(replace(line, "\t", <<" ", " ">>))

\* the value a non-header line leaves: sections[current] + '\n' + line.replace('\t', '  ')
AppendLine(body, line) == body \o <<"\n">> \o replace(line, "\t", <<" ", " ">>)

\* one iteration of `for line in lines`; st = [cur |-> current_section, map |-> sections]
ParseLine(st, line) ==
    IF header_regex_match(line)
    THEN LET p == partition(line, ":")
         IN [cur |-> p[1], map |-> DictSet(st.map, p[1], HeaderBody(p[3]))]
    ELSE [cur |-> st.cur,
          map |-> DictSet(st.map, st.cur, AppendLine(st.map[st.cur], line))]

RECURSIVE ParseLines(_, _)
ParseLines(st, lines) ==
    IF lines = <<>> THEN st
    ELSE ParseLines(ParseLine(st, Head(lines)), Tail(lines))

_parse_docs_to_map(text) ==
    ParseLines([cur |-> <<>>, map |-> EmptySections], splitlines(text)).map

----------------------------------------------------------------------------
(* Inputs of the parser: texts of up to MaxLines lines.                    *)

ExampleDoc ==
    <<"G", "E", "T", ":", "\n", " ", " ", "L", "i", "s", "t", "s", " ", "u", "s",
      "e", "r", "s", "\n", "P", "O", "S", "T", ":", "\n", " ", " ", "C", "r", "e",
      "a", "t", "e", "s", " ", "a", " ", "u", "s", "e", "r">>

LineChoices ==
    { <<"a", ":">>,
      <<"a", ":", "x", "\t", "y">>,
      <<"b", ":", " ", "x">>,
      <<" ", "x">>,
      <<"\t", "y">>,
      <<"2", "x", "x", ":">>,
      <<>>,
      <<"B", "_", "1", ":", "\t", "z", "\t">> }

RECURSIVE JoinLines(_)
JoinLines(ls) ==
    IF ls = <<>> THEN <<>>
    ELSE IF Len(ls) = 1 THEN ls[1]
    ELSE ls[1] \o <<"\n">> \o JoinLines(Tail(ls))

DocInputs ==
    {ExampleDoc} \cup
    UNION {{JoinLines(ls) : ls \in [1..n -> LineChoices]} : n \in 0..MaxLines}

----------------------------------------------------------------------------
(* Values the variables of an operation hold while another one is studied. *)

NoBuild == [built |-> FALSE]

IdleCtor == counter = 0 /\ ids = <<>> /\ last = NoBuild
IdleThreads == tpc = <<>> /\ tid = <<>> /\ treg = <<>> /\ tbuilt = <<>>
IdleParse == doc = <<>> /\ parsed = FALSE /\ sections = EmptySections
NoPath == [raised |-> FALSE, value |-> <<>>]
IdlePath == route = <<>> /\ routed = FALSE /\ complete_path = NoPath
NoSerializer == [has_get_fields |-> FALSE, fields |-> <<>>, meta |-> <<>>]
IdleFields == serializer = NoSerializer /\ resolved = FALSE /\ fields = <<>>

----------------------------------------------------------------------------
(* Specification of the parser: one call of _parse_docs_to_map per text.   *)

InitParse ==
    /\ doc \in DocInputs
    /\ parsed = FALSE
    /\ sections = EmptySections
    /\ IdleCtor /\ IdleThreads /\ IdlePath /\ IdleFields

ParseDoc ==
    /\ ~parsed
    /\ sections' = _parse_docs_to_map(doc)
    /\ parsed' = TRUE
    /\ UNCHANGED <<doc, ctorVars, threadVars, pathVars, fieldVars>>

NextParse == ParseDoc

SpecParse == InitParse /\ [][NextParse]_vars

----------------------------------------------------------------------------
(* What the parser is expected to return, stated over the lines of the     *)
(* text rather than by running the loop.                                   *)

DocLines == splitlines(doc)
IsHeader(i) == header_regex_match(DocLines[i])
HeaderName(i) == partition(DocLines[i], ":")[1]
HeaderLead(i) == partition(DocLines[i], ":")[3]
ExpandTabs(line) == replace(line, "\t", <<" ", " ">>)

\* the header line that governs line i: the nearest header line before it (0: none)
Governing(i) ==
    IF \E h \in 1..(i - 1) : IsHeader(h)
    THEN CHOOSE h \in 1..(i - 1) :
             IsHeader(h) /\ \A g \in (h + 1)..(i - 1) : ~IsHeader(g)
    ELSE 0

\* the lines from..to, each preceded by a newline and tab-expanded
RECURSIVE Continuation(_, _)
Continuation(from, to) ==
    IF from > to THEN <<>>
    ELSE <<"\n">> \o ExpandTabs(DocLines[from]) \o Continuation(from + 1, to)

\* the last line of the block that starts after line h (h = 0: the leading block)
BlockEnd(h) ==
    IF \E g \in (h + 1)..Len(DocLines) : IsHeader(g)
    THEN (CHOOSE g \in (h + 1)..Len(DocLines) :
              IsHeader(g) /\ \A f \in (h + 1)..(g - 1) : ~IsHeader(f)) - 1
    ELSE Len(DocLines)

HeaderNames == {HeaderName(i) : i \in {j \in DOMAIN DocLines : IsHeader(j)}}

\* the last header line that carries name k
LastHeader(k) ==
    CHOOSE h \in DOMAIN DocLines :
        /\ IsHeader(h) /\ HeaderName(h) = k
        /\ \A g \in (h + 1)..Len(DocLines) : ~(IsHeader(g) /\ HeaderName(g) = k)

ClaimedExampleSections ==
    [k \in {<<>>, <<"G", "E", "T">>, <<"P", "O", "S", "T">>} |->
        IF k = <<>> THEN <<>>
        ELSE IF k = <<"G", "E", "T">>
        THEN <<"L", "i", "s", "t", "s", " ", "u", "s", "e", "r", "s">>
        ELSE <<"C", "r", "e", "a", "t", "e", "s", " ", "a", " ", "u", "s", "e", "r">>]

ActualExampleSections ==
    [k \in {<<>>, <<"G", "E", "T">>, <<"P", "O", "S", "T">>} |->
        IF k = <<>> THEN <<>>
        ELSE IF k = <<"G", "E", "T">>
        THEN <<"\n", " ", " ", "L", "i", "s", "t", "s", " ", "u", "s", "e", "r", "s">>
        ELSE <<"\n", " ", " ", "C", "r", "e", "a", "t", "e", "s", " ", "a", " ", "u",
               "s", "e", "r">>]

\* C6 (as stated): parsing "GET:\n  Lists users\nPOST:\n  Creates a user" returns
\* exactly {'': '', 'GET': 'Lists users', 'POST': 'Creates a user'}.
C6_ExampleAsClaimed ==
    (parsed /\ doc = ExampleDoc) => sections = ClaimedExampleSections

\* C6 (amended): parsing the example text returns
\* {'': '', 'GET': '\n  Lists users', 'POST': '\n  Creates a user'}; for every text
\* the keys are '' and the header names as written, '' holds the lines before the
\* first header, and the body of a name is the stripped text after the colon of the
\* last header line carrying that name followed by each non-header line after it,
\* each preceded by a newline and with its tabs expanded; the body is not trimmed.
C6_ExampleSections ==
    parsed =>
        /\ doc = ExampleDoc => sections = ActualExampleSections
        /\ DOMAIN sections = {<<>>} \cup HeaderNames
        /\ sections[<<>>] = Continuation(1, BlockEnd(0))
        /\ \A k \in HeaderNames :
              sections[k] = strip(HeaderLead(LastHeader(k)))
                              \o Continuation(LastHeader(k) + 1, BlockEnd(LastHeader(k)))

C6_Witness == parsed /\ doc = ExampleDoc /\ <<"G", "E", "T">> \in DOMAIN sections

\* C9 (as stated): no body returned by the parser holds a tab character, the part
\* of a body that sits on the header line after the colon included.
C9_NoTabInAnyBody ==
    parsed => \A k \in DOMAIN sections : "\t" \notin Range(sections[k])

\* C10 (as stated): every non-header line that follows a header line is contained
\* (with its tabs expanded) in the body the mapping holds for the name of the
\* nearest preceding header line, also when a name heads more than one line.
C10_LineInGoverningSection ==
    parsed =>
        \A i \in DOMAIN DocLines :
            (~IsHeader(i) /\ Governing(i) # 0) =>
                Contains(sections[HeaderName(Governing(i))], ExpandTabs(DocLines[i]))

----------------------------------------------------------------------------
(* Path assembly.                                                          *)

\* django.contrib.admindocs.views.simplify_regex: a named group becomes <name>,
\* an unnamed group <var>; ^, $ and ? are dropped; a leading / is added if missing.
RECURSIVE SkipGroup(_)
SkipGroup(s) ==
    IF s = <<>> THEN <<>>
    ELSE IF Head(s) = ")" THEN Tail(s)
    ELSE SkipGroup(Tail(s))
RECURSIVE ReplaceGroups(_)
ReplaceGroups(s) ==
    IF s = <<>> THEN <<>>
    ELSE IF Len(s) >= 4 /\ SubSeq(s, 1, 4) = <<"(", "?", "P", "<">>
              /\ ">" \in Range(s) /\ ")" \in Range(s)
         THEN LET name == partition(SubSeq(s, 5, Len(s)), ">")[1]
              IN <<"<">> \o name \o <<">">> \o ReplaceGroups(SkipGroup(s))
    ELSE IF Head(s) = "(" /\ ")" \in Range(s)
         THEN <<"<", "v", "a", "r", ">">> \o ReplaceGroups(SkipGroup(s))
    ELSE <<Head(s)>> \o ReplaceGroups(Tail(s))
simplify_regex(pattern) ==
    LET cleaned == replace(replace(replace(ReplaceGroups(pattern),
                       "^", <<>>), "$", <<>>), "?", <<>>)
    IN IF cleaned # <<>> /\ Head(cleaned) = "/" THEN cleaned ELSE <<"/">> \o cleaned

\* the try block: which attribute holds the pattern text; any failure gives ""
PatternRegex(r) ==
    IF r.shape \in {"_regex", "pattern._regex", "str(pattern)"} THEN r.regex ELSE <<>>

\* _get_complete_path with the prefix stripped of slashes on both sides
_get_complete_path_stripped(r) ==
    IF ~r.has_prefix
    THEN [raised |-> TRUE, value |-> <<>>]
    ELSE [raised |-> FALSE,
          value |-> lstrip(rstrip(r.prefix, {"/"}), {"/"}) \o <<"/">>
                      \o lstrip(simplify_regex(PatternRegex(r)), {"/"})]

\* r = [shape, regex, has_prefix, prefix]; prefix None makes prefix.rstrip raise
_get_complete_path(r) ==
    IF ~r.has_prefix
    THEN [raised |-> TRUE, value |-> <<>>]
    ELSE [raised |-> FALSE,
          value |-> rstrip(r.prefix, {"/"}) \o <<"/">>
                      \o lstrip(simplify_regex(PatternRegex(r)), {"/"})]

RegexChoices ==
    { <<"^", "u", "s", "e", "r", "s", "/", "$">>,
      <<"^", "u", "s", "e", "r", "s", "/", "(", "?", "P", "<", "p", "k", ">", "[",
        "0", "-", "9", "]", "+", ")", "/", "$">>,
      <<"^", "(", "[", "a", "-", "z", "]", "+", ")", "/", "?", "$">>,
      <<"u", "s", "e", "r", "s", "/">>,
      <<"^", "/", "x", "$">>,
      <<>> }

PrefixChoices ==
    { <<"/", "a", "p", "i">>,
      <<"a", "p", "i", "/">>,
      <<"/", "a", "p", "i", "/", "/">>,
      <<"/">>,
      <<>> }

RouteInputs ==
    [shape : {"_regex", "pattern._regex", "str(pattern)", "none"},
     regex : RegexChoices,
     has_prefix : {TRUE},
     prefix : PrefixChoices]
    \cup
    [shape : {"_regex", "pattern._regex", "str(pattern)", "none"},
     regex : RegexChoices,
     has_prefix : {FALSE},
     prefix : {<<>>}]

InitPath ==
    /\ route \in RouteInputs
    /\ routed = FALSE
    /\ complete_path = NoPath
    /\ IdleCtor /\ IdleThreads /\ IdleParse /\ IdleFields

ResolvePath ==
    /\ ~routed
    /\ complete_path' = _get_complete_path(route)
    /\ routed' = TRUE
    /\ UNCHANGED <<route, ctorVars, threadVars, parseVars, fieldVars>>

NextPath == ResolvePath

SpecPath == InitPath /\ [][NextPath]_vars

UsersPattern == <<"^", "u", "s", "e", "r", "s", "/", "$">>
ApiPrefix == <<"/", "a", "p", "i">>
IsExampleRoute ==
    /\ route.shape # "none" /\ route.regex = UsersPattern
    /\ route.has_prefix /\ route.prefix = ApiPrefix

\* C7 (as stated): for pattern ^users/$ and prefix /api the complete path is exactly
\* api/users/; in general the path is the prefix, a single '/', and the simplified
\* pattern without its leading slashes.
C7_PathAsClaimed ==
    (routed /\ ~complete_path.raised) =>
        /\ IsExampleRoute =>
              complete_path.value = <<"a", "p", "i", "/", "u", "s", "e", "r", "s", "/">>
        /\ complete_path.value =
              rstrip(route.prefix, {"/"}) \o <<"/">>
                \o lstrip(simplify_regex(PatternRegex(route)), {"/"})

\* C7 (amended): for pattern ^users/$ and prefix /api the complete path is exactly
\* /api/users/ (the leading slash of the prefix is kept); in general, for a string
\* prefix, the path starts with the prefix without its trailing slashes, followed by
\* exactly one '/', followed by the simplified pattern without its leading slashes
\* (an unreadable pattern counts as the empty pattern).
C7_CompletePath ==
    (routed /\ ~complete_path.raised) =>
        LET head == rstrip(route.prefix, {"/"})
            path == complete_path.value
            rest == SubSeq(path, Len(head) + 2, Len(path))
        IN /\ IsExampleRoute =>
                 path = <<"/", "a", "p", "i", "/", "u", "s", "e", "r", "s", "/">>
           /\ Len(path) >= Len(head) + 1
           /\ SubSeq(path, 1, Len(head)) = head
           /\ head = <<>> \/ head[Len(head)] # "/"
           /\ path[Len(head) + 1] = "/"
           /\ rest = <<>> \/ Head(rest) # "/"
           /\ rest = lstrip(simplify_regex(IF route.shape = "none" THEN <<>>
                                            ELSE route.regex), {"/"})

C7_Witness ==
    /\ routed /\ ~complete_path.raised /\ IsExampleRoute
    /\ Len(complete_path.value) = 11

----------------------------------------------------------------------------
(* The field schema resolver.                                              *)
(*                                                                         *)
(* A serializer is [has_get_fields, fields, meta]: fields is get_fields()  *)
(* as a sequence of <<key, field>>, meta maps each attribute name of       *)
(* Meta.model that is a relation to the name of its related model.         *)
(* A field is [cls, many, read_only, required, write_only, help_text,      *)
(* choices, qs_model, child_qs_model, ser, child]: many says whether the   *)
(* object has an attribute `many`; qs_model is <<name>> when field.queryset*)
(* exists and has a model, <<>> otherwise; ser is the field seen as a      *)
(* serializer and child the serializer a list serializer wraps.  A help    *)
(* text is [none, text] with text the sequence of the pieces it is         *)
(* formatted from.                                                         *)

\* isinstance(field, ...) for the classes imported at the top of the file
IsBaseSerializer(f) == f.cls \in {"Serializer", "ListSerializer"}
IsChoiceField(f) == f.cls \in {"ChoiceField"}
IsRelatedField(f) == f.cls \in {"PrimaryKeyRelatedField"}
IsManyRelatedField(f) == f.cls \in {"ManyRelatedField"}

\* '{}\nRequires/renders pk(id) of {} as integer'.format(help or "", name)
SingularHelp(help, name) ==
    [none |-> FALSE,
     text |-> (IF help.none THEN <<>> ELSE help.text)
                \o <<"\nRequires/renders pk(id) of ", name, " as integer">>]

\* "{}\nRequires/renders list of pk's(id's) of {} objects.".format(help or "", name)
ListHelp(help, name) ==
    [none |-> FALSE,
     text |-> (IF help.none THEN <<>> ELSE help.text)
                \o <<"\nRequires/renders list of pk's(id's) of ", name, " objects.">>]

\* the help text of one field: the if/elif chain over RelatedField and ManyRelatedField
RelationHelp(ser, key, f) ==
    IF IsRelatedField(f)
    THEN IF f.qs_model # <<>> THEN SingularHelp(f.help_text, f.qs_model[1])
         ELSE IF key \in DOMAIN ser.meta THEN SingularHelp(f.help_text, ser.meta[key])
         ELSE f.help_text
    ELSE IF IsManyRelatedField(f)
    THEN IF f.qs_model # <<>> THEN ListHelp(f.help_text, f.child_qs_model[1])
         ELSE IF key \in DOMAIN ser.meta THEN SingularHelp(f.help_text, ser.meta[key])
         ELSE f.help_text
    ELSE f.help_text

RECURSIVE _get_serializer_fields(_)
RECURSIVE FieldData(_, _, _)
FieldData(ser, key, f) ==
    LET to_many_relation == f.many
        sub_fields ==
            IF ~IsBaseSerializer(f) THEN [none |-> TRUE, list |-> <<>>]
            ELSE IF to_many_relation
                 THEN [none |-> FALSE, list |-> _get_serializer_fields(f.child[1])]
                 ELSE [none |-> FALSE, list |-> _get_serializer_fields(f.ser[1])]
    IN [name |-> key,
        read_only |-> f.read_only,
        type |-> f.cls,
        sub_fields |-> sub_fields,
        required |-> f.required,
        to_many_relation |-> to_many_relation,
        help_text |-> RelationHelp(ser, key, f),
        write_only |-> f.write_only,
        choices |-> IF IsChoiceField(f) /\ ~(IsRelatedField(f) \/ IsManyRelatedField(f))
                    THEN <<f.choices>> ELSE <<>>]

_get_serializer_fields(ser) ==
    IF ser.has_get_fields
    THEN [i \in DOMAIN ser.fields |-> FieldData(ser, ser.fields[i][1], ser.fields[i][2])]
    ELSE <<>>

----------------------------------------------------------------------------
(* Inputs of the resolver.                                                 *)

NoHelp == [none |-> TRUE, text |-> <<>>]
Help(t) == [none |-> FALSE, text |-> <<t>>]

PlainField(cls, help) ==
    [cls |-> cls, many |-> FALSE, read_only |-> FALSE, required |-> TRUE,
     write_only |-> FALSE, help_text |-> help, choices |-> {},
     qs_model |-> <<>>, child_qs_model |-> <<>>, ser |-> <<>>, child |-> <<>>]

CharField == PlainField("CharField", Help("display name"))
StatusField == [PlainField("ChoiceField", NoHelp) EXCEPT !.choices = {"open", "closed"}]
OwnerField == [PlainField("PrimaryKeyRelatedField", Help("owner")) EXCEPT
                  !.qs_model = <<"User">>]
\* a read-only relation: its queryset is None
AuthorField == [PlainField("PrimaryKeyRelatedField", NoHelp) EXCEPT
                  !.read_only = TRUE, !.required = FALSE]
\* the object many=True builds: no queryset of its own, child_relation holds it
TagsField == [PlainField("ManyRelatedField", Help("tags")) EXCEPT
                  !.child_qs_model = <<"Tag">>]
\* a to-many relation object that also exposes queryset
GroupsField == [PlainField("ManyRelatedField", NoHelp) EXCEPT
                  !.qs_model = <<"Group">>, !.child_qs_model = <<"Group">>]

InnerSerializer ==
    [has_get_fields |-> TRUE, fields |-> <<<<"label", CharField>>>>,
     meta |-> [k \in {} |-> ""]]
NestedField == [PlainField("Serializer", NoHelp) EXCEPT !.ser = <<InnerSerializer>>]
ItemsField == [PlainField("ListSerializer", NoHelp) EXCEPT
                  !.many = TRUE, !.child = <<InnerSerializer>>]

FieldChoices ==
    {CharField, StatusField, OwnerField, AuthorField, TagsField, GroupsField,
     NestedField, ItemsField}

FieldKeys == <<"first", "second", "third", "fourth">>

\* Meta.model either declares every key as a relation to Account, or none
SerializerInputs ==
    UNION {
        {[has_get_fields |-> TRUE,
          fields |-> [i \in 1..n |-> <<FieldKeys[i], fs[i]>>],
          meta |-> [k \in keys |-> "Account"]] :
            fs \in [1..n -> FieldChoices],
            keys \in {{}, {FieldKeys[i] : i \in 1..n}}} :
        n \in 1..MaxFields}
    \cup {NoSerializer}

InitFields ==
    /\ serializer \in SerializerInputs
    /\ resolved = FALSE
    /\ fields = <<>>
    /\ IdleCtor /\ IdleThreads /\ IdleParse /\ IdlePath

ResolveFields ==
    /\ ~resolved
    /\ fields' = _get_serializer_fields(serializer)
    /\ resolved' = TRUE
    /\ UNCHANGED <<serializer, ctorVars, threadVars, parseVars, pathVars>>

NextFields == ResolveFields

SpecFields == InitFields /\ [][NextFields]_vars

\* the target of a relation is resolvable: through its queryset or through Meta.model
TargetResolvable(ser, key, f) == f.qs_model # <<>> \/ key \in DOMAIN ser.meta

EndsWithListWording(h) ==
    /\ Len(h.text) >= 3
    /\ h.text[Len(h.text) - 2] = "\nRequires/renders list of pk's(id's) of "
    /\ h.text[Len(h.text)] = " objects."
HasSingularWording(h) == "\nRequires/renders pk(id) of " \in Range(h.text)
HasListWording(h) == "\nRequires/renders list of pk's(id's) of " \in Range(h.text)

\* C8 (as stated): a to-many relational field with a resolvable target gets a help
\* text ending in the list-of-pk's sentence, a single relational field with a
\* resolvable target gets the singular wording; a to-many field never receives the
\* singular wording and a single field never receives the list wording.
C8_RelationWording ==
    resolved =>
        \A i \in DOMAIN fields :
            LET key == serializer.fields[i][1]
                f == serializer.fields[i][2]
                h == fields[i].help_text
            IN /\ (IsManyRelatedField(f) /\ TargetResolvable(serializer, key, f)) =>
                     EndsWithListWording(h)
               /\ (IsRelatedField(f) /\ TargetResolvable(serializer, key, f)) =>
                     HasSingularWording(h)
               /\ IsManyRelatedField(f) => ~HasSingularWording(h)
               /\ IsRelatedField(f) => ~HasListWording(h)

----------------------------------------------------------------------------
(* The constructor.                                                        *)
(*                                                                         *)
(* A view is [has_actions, actions, has_allowed_methods, http_methods,     *)
(* extra_actions, cls_doc, req_res, serializer_class,                      *)
(* response_serializer_class, route]: actions is view.actions as a         *)
(* sequence of <<method, action>> in dict order; http_methods lists the    *)
(* names m of cls.http_method_names for which hasattr(cls, m);             *)
(* extra_actions is cls.get_extra_actions() as [name, doc] records;        *)
(* cls_doc and the docs of the extra actions are the texts                 *)
(* formatting.dedent returns for them; a serializer attribute is           *)
(* [state, ser] with state "absent", "none" or "class".                    *)

\* get_view_description(obj): the dedented __doc__ of a class or function
get_view_description(obj) == obj.doc

_get_allowed_methods(view) ==
    IF view.has_actions
    THEN [i \in DOMAIN view.actions |-> upper(view.actions[i][1])]
    ELSE IF view.has_allowed_methods
    THEN [i \in DOMAIN view.http_methods |-> upper(view.http_methods[i])]
    ELSE <<>>

\* getattr(self.view, 'actions', False) is truthy
ActionsTruthy(view) == view.has_actions /\ view.actions # <<>>

\* the loop over get_extra_actions(): the first one named like the only action
ExtraMethod(view) ==
    IF ActionsTruthy(view) /\ Len(view.actions) = 1
    THEN LET hits == {i \in DOMAIN view.extra_actions :
                         view.extra_actions[i].name = view.actions[1][2]}
         IN IF hits = {} THEN <<>>
            ELSE <<view.extra_actions[CHOOSE i \in hits : \A j \in hits : i <= j]>>
    ELSE <<>>

\* the description _get_doc and _parse_req_res_doc parse
Description(view) ==
    IF ExtraMethod(view) # <<>>
    THEN get_view_description(ExtraMethod(view)[1])
    ELSE get_view_description([doc |-> view.cls_doc])

\* the actions_map _get_doc iterates, as <<method_name, section key>>: an action
\* name when the map is view.actions, else the upper-cased method name itself
DocActionsMap(view) ==
    IF ActionsTruthy(view) THEN view.actions
    ELSE [i \in DOMAIN view.http_methods |->
             <<upper(view.http_methods[i]), upper(view.http_methods[i])>>]

\* whether the loop of _get_doc emits an entry for a section key
EmitsSection(secs, key) == key \in DOMAIN secs

\* the entries the loop of _get_doc emits: [label, key, body]
RECURSIVE DocEntriesOf(_, _)
DocEntriesOf(items, secs) ==
    IF items = <<>> THEN <<>>
    ELSE (IF EmitsSection(secs, Head(items)[2])
          THEN <<[label |-> upper(Head(items)[1]), key |-> Head(items)[2],
                  body |-> strip(secs[Head(items)[2]])]>>
          ELSE <<>>) \o DocEntriesOf(Tail(items), secs)

DocEntries(view) ==
    DocEntriesOf(DocActionsMap(view), _parse_docs_to_map(Description(view)))

RECURSIVE JoinEntries(_)
JoinEntries(es) ==
    IF es = <<>> THEN <<>>
    ELSE Head(es).label \o <<"\n">> \o Head(es).body \o <<"\n", "\n">>
           \o JoinEntries(Tail(es))

_get_doc(view) ==
    LET d == JoinEntries(DocEntries(view))
    IN IF d # <<>> THEN d ELSE Description(view)

\* ReqResText with absent sections skipped the way _get_doc skips them
RECURSIVE ReqResTextSkipping(_, _)
ReqResTextSkipping(methods, secs) ==
    IF methods = <<>> THEN [exc |-> "none", text |-> <<>>]
    ELSE LET key == lower(Head(methods)) \o <<"_", "r", "e", "q">>
             rest == ReqResTextSkipping(Tail(methods), secs)
         IN IF key \notin DOMAIN secs THEN rest
            ELSE [exc |-> rest.exc,
                  text |-> upper(Head(methods)) \o <<"\n">> \o secs[key] \o rest.text]

\* the loops of _parse_req_res_doc: text += method.upper() + '\n' + sections[key]
RECURSIVE ReqResText(_, _)
ReqResText(methods, secs) ==
    IF methods = <<>> THEN [exc |-> "none", text |-> <<>>]
    ELSE LET key == lower(Head(methods)) \o <<"_", "r", "e", "q">>
         IN IF key \notin DOMAIN secs THEN [exc |-> "KeyError", text |-> <<>>]
            ELSE LET rest == ReqResText(Tail(methods), secs)
                 IN [exc |-> rest.exc,
                     text |-> upper(Head(methods)) \o <<"\n">> \o secs[key] \o rest.text]

GET == <<"G", "E", "T">>
OPTIONS == <<"O", "P", "T", "I", "O", "N", "S">>
ReadOnly(methods) == Range(methods) = {GET, OPTIONS}

NoFields == [exc |-> "none", input_fields |-> <<>>, output_fields |-> <<>>,
             input_fields_text |-> <<>>, output_fields_text |-> <<>>]

_parse_req_res_doc(view, methods) ==
    LET r == ReqResText(methods, _parse_docs_to_map(Description(view)))
    IN IF r.exc # "none" THEN [NoFields EXCEPT !.exc = r.exc]
       ELSE IF ~ReadOnly(methods)
       THEN [NoFields EXCEPT !.input_fields_text = <<r.text>>]
       ELSE [NoFields EXCEPT !.output_fields_text = <<r.text>>]

\* SerializerRoles with response_serializer_class used only where serializer_class
\* left output_fields unset
SerializerRolesKeepFirst(view, methods) ==
    LET sc == view.serializer_class
        rsc == view.response_serializer_class
        first ==
            IF sc.state = "class"
            THEN IF ~(Range(methods) = {<<"G", "E", "T">>, <<"O", "P", "T", "I", "O", "N", "S">>})
                 THEN [exc |-> "none",
                       input_fields |-> <<_get_serializer_fields(sc.ser)>>,
                       output_fields |-> <<>>,
                       input_fields_text |-> <<>>, output_fields_text |-> <<>>]
                 ELSE [exc |-> "none", input_fields |-> <<>>,
                       output_fields |-> <<_get_serializer_fields(sc.ser)>>,
                       input_fields_text |-> <<>>, output_fields_text |-> <<>>]
            ELSE [exc |-> "none", input_fields |-> <<>>, output_fields |-> <<>>,
                  input_fields_text |-> <<>>, output_fields_text |-> <<>>]
    IN IF rsc.state = "absent" \/ first.output_fields # <<>> THEN first
       ELSE IF rsc.state = "none" THEN [first EXCEPT !.exc = "TypeError"]
       ELSE [first EXCEPT !.output_fields = <<_get_serializer_fields(rsc.ser)>>]

\* the else branch of __init__: which serializer fills which attribute
SerializerRoles(view, methods) ==
    LET sc == view.serializer_class
        rsc == view.response_serializer_class
        first ==
            IF sc.state = "class"
            THEN IF ~ReadOnly(methods)
                 THEN [NoFields EXCEPT !.input_fields = <<_get_serializer_fields(sc.ser)>>]
                 ELSE [NoFields EXCEPT !.output_fields = <<_get_serializer_fields(sc.ser)>>]
            ELSE NoFields
    IN IF rsc.state = "absent" THEN first
       ELSE IF rsc.state = "none" THEN [first EXCEPT !.exc = "TypeError"]
       ELSE [first EXCEPT !.output_fields = <<_get_serializer_fields(rsc.ser)>>]

\* CounterAfterInit with the increment placed at the end of __init__
CounterAfterInitLate(c, exc) == IF exc = "none" THEN c + 1 ELSE c

\* Endpoint.counter after __init__ ended with `exc`: line 18 precedes every
\* statement that can raise
CounterAfterInit(c, exc) == c + 1

\* what __init__ leaves, given the view and the value of Endpoint.counter; the
\* name and the filter, authentication and permission blocks (lines 25-37) set
\* attributes of their own and leave the ones below untouched
EndpointInit(view, c) ==
    LET methods == _get_allowed_methods(view)
        path == _get_complete_path(view.route)
        body == IF view.req_res THEN _parse_req_res_doc(view, methods)
                ELSE SerializerRoles(view, methods)
        base == [built |-> TRUE, view |-> view, id |-> c, exc |-> "none",
                 methods |-> methods, complete_path |-> <<>>, docstring |-> <<>>,
                 doc_entries |-> <<>>,
                 input_fields |-> <<>>, output_fields |-> <<>>,
                 input_fields_text |-> <<>>, output_fields_text |-> <<>>]
    IN IF path.raised THEN [base EXCEPT !.exc = "AttributeError"]
       ELSE [base EXCEPT !.complete_path = path.value,
                         !.docstring = _get_doc(view),
                         !.doc_entries = DocEntries(view),
                         !.exc = body.exc,
                         !.input_fields = body.input_fields,
                         !.output_fields = body.output_fields,
                         !.input_fields_text = body.input_fields_text,
                         !.output_fields_text = body.output_fields_text]

----------------------------------------------------------------------------
(* Inputs of the constructor.                                              *)

get == <<"g", "e", "t">>
post == <<"p", "o", "s", "t">>
options == <<"o", "p", "t", "i", "o", "n", "s">>
list == <<"l", "i", "s", "t">>
create == <<"c", "r", "e", "a", "t", "e">>
retrieve == <<"r", "e", "t", "r", "i", "e", "v", "e">>
publish == <<"p", "u", "b", "l", "i", "s", "h">>

\* "GET: lists\nPOST:\n\tcreates\nget_req: q\noptions_req: o"
ClassDoc ==
    <<"G", "E", "T", ":", " ", "l", "i", "s", "t", "s", "\n", "P", "O", "S", "T",
      ":", "\n", "\t", "c", "r", "e", "a", "t", "e", "s", "\n", "g", "e", "t", "_",
      "r", "e", "q", ":", " ", "q", "\n", "o", "p", "t", "i", "o", "n", "s", "_",
      "r", "e", "q", ":", " ", "o">>
\* "list: all\nretrieve: one\npost_req: body\nget_req: q"
ViewSetDoc ==
    <<"l", "i", "s", "t", ":", " ", "a", "l", "l", "\n", "r", "e", "t", "r", "i",
      "e", "v", "e", ":", " ", "o", "n", "e", "\n", "p", "o", "s", "t", "_", "r",
      "e", "q", ":", " ", "b", "o", "d", "y", "\n", "g", "e", "t", "_", "r", "e",
      "q", ":", " ", "q">>
\* "Plain text"
PlainDoc == <<"P", "l", "a", "i", "n", " ", "t", "e", "x", "t">>
\* "publish: go\npost_req: payload"
PublishDoc ==
    <<"p", "u", "b", "l", "i", "s", "h", ":", " ", "g", "o", "\n", "p", "o", "s",
      "t", "_", "r", "e", "q", ":", " ", "p", "a", "y", "l", "o", "a", "d">>

RequestSerializer ==
    [has_get_fields |-> TRUE,
     fields |-> <<<<"owner", OwnerField>>, <<"name", CharField>>>>,
     meta |-> [k \in {"owner"} |-> "User"]]
ResponseSerializer ==
    [has_get_fields |-> TRUE,
     fields |-> <<<<"status", StatusField>>, <<"items", ItemsField>>>>,
     meta |-> [k \in {} |-> ""]]

Absent == [state |-> "absent", ser |-> NoSerializer]
NoneClass == [state |-> "none", ser |-> NoSerializer]
Class(ser) == [state |-> "class", ser |-> ser]

ExampleRoute ==
    [shape |-> "_regex", regex |-> UsersPattern, has_prefix |-> TRUE, prefix |-> ApiPrefix]
\* Endpoint(pattern) called without a prefix: prefix is None
NoPrefixRoute ==
    [shape |-> "_regex", regex |-> UsersPattern, has_prefix |-> FALSE, prefix |-> <<>>]

\* view.actions: absent (a class-based view), a viewset's map, or an empty map;
\* cls.allowed_methods matters only when view.actions is absent
RoutingChoices ==
    { [has_actions |-> FALSE, actions |-> <<>>, has_allowed_methods |-> TRUE],
      [has_actions |-> FALSE, actions |-> <<>>, has_allowed_methods |-> FALSE],
      [has_actions |-> TRUE, actions |-> <<<<get, list>>, <<post, create>>>>,
       has_allowed_methods |-> TRUE],
      [has_actions |-> TRUE, actions |-> <<<<get, retrieve>>>>,
       has_allowed_methods |-> TRUE],
      [has_actions |-> TRUE, actions |-> <<<<post, publish>>>>,
       has_allowed_methods |-> TRUE],
      [has_actions |-> TRUE, actions |-> <<>>, has_allowed_methods |-> TRUE] }

SerializerChoices ==
    { <<Absent, Absent>>, <<NoneClass, Absent>>, <<Class(RequestSerializer), Absent>>,
      <<Class(RequestSerializer), Class(ResponseSerializer)>>,
      <<Absent, Class(ResponseSerializer)>>, <<Class(RequestSerializer), NoneClass>> }

View(r, h, d, q, sc, rt) ==
    [has_actions |-> r.has_actions, actions |-> r.actions,
     has_allowed_methods |-> r.has_allowed_methods,
     http_methods |-> h,
     extra_actions |-> <<[name |-> publish, doc |-> PublishDoc]>>,
     cls_doc |-> d, req_res |-> q,
     serializer_class |-> sc[1], response_serializer_class |-> sc[2],
     route |-> rt]

HandlerChoices == {<<get, options>>, <<get, post, options>>}

\* every routing with every docstring; every serializer declaration with every
\* routing; and calls without a prefix
ViewInputs ==
    {View(r, h, d, q, <<Class(RequestSerializer), Absent>>, ExampleRoute) :
        r \in RoutingChoices, h \in HandlerChoices,
        d \in {ClassDoc, ViewSetDoc, PlainDoc}, q \in BOOLEAN}
    \cup
    {View(r, h, ClassDoc, q, sc, ExampleRoute) :
        r \in RoutingChoices, h \in HandlerChoices, q \in BOOLEAN,
        sc \in SerializerChoices}
    \cup
    {View(r, <<get, post, options>>, ClassDoc, q,
          <<Class(RequestSerializer), Absent>>, NoPrefixRoute) :
        r \in RoutingChoices, q \in BOOLEAN}

----------------------------------------------------------------------------
(* Specification of sequential construction: Endpoint(pattern, prefix) is  *)
(* run to its end (normal or by an exception) before the next one starts.  *)

Init ==
    /\ counter = 0
    /\ ids = <<>>
    /\ last = NoBuild
    /\ IdleThreads /\ IdleParse /\ IdlePath /\ IdleFields

Construct(view) ==
    /\ counter < MaxBuilds
    /\ LET e == EndpointInit(view, counter)
       IN /\ last' = e
          /\ ids' = Append(ids, e.id)
          /\ counter' = CounterAfterInit(counter, e.exc)
    /\ UNCHANGED <<threadVars, parseVars, pathVars, fieldVars>>

Next == \E view \in ViewInputs : Construct(view)

Spec == Init /\ [][Next]_vars

\* the sections _get_doc and _parse_req_res_doc look names up in, for the latest
\* construction
LastSections == _parse_docs_to_map(Description(last.view))
ReqKey(method) == lower(method) \o <<"_", "r", "e", "q">>
\* the latest construction got past _get_complete_path
ReachedDoc == last.built /\ last.exc # "AttributeError"

\* C1: ids are strictly increasing in construction order, constructions that raise
\* included, and every id handed out is below the counter, so that no later
\* construction receives it again.
C1_IdsStrictlyIncreasing ==
    /\ \A i, j \in DOMAIN ids : i < j => ids[i] < ids[j]
    /\ \A i \in DOMAIN ids : ids[i] < counter

C1_Witness ==
    /\ Len(ids) >= 2 /\ last.built /\ last.exc # "none"
    /\ ids[Len(ids) - 1] < last.id

\* C3: in _get_doc a method or action whose section name is no key of the parsed
\* map contributes nothing and raises nothing; in the explicit request/response
\* mode a method of self.methods whose '<method>_req' section is absent makes the
\* constructor end with KeyError (and it ends normally when none is absent).
C3_MissingSectionPolicy ==
    ReachedDoc =>
        LET items == DocActionsMap(last.view)
            present == {i \in DOMAIN items : items[i][2] \in DOMAIN LastSections}
            missing == {m \in Range(last.methods) : ReqKey(m) \notin DOMAIN LastSections}
        IN /\ Len(last.doc_entries) = Cardinality(present)
           /\ \A n \in DOMAIN last.doc_entries :
                 last.doc_entries[n].key \in DOMAIN LastSections
           /\ present = {} => last.docstring = Description(last.view)
           /\ ~last.view.req_res => last.exc # "KeyError"
           /\ last.view.req_res => (last.exc = "KeyError" <=> missing # {})
           /\ last.view.req_res => (last.exc = "none" <=> missing = {})

C3_Witness ==
    /\ ReachedDoc /\ last.view.req_res /\ last.exc = "KeyError"
    /\ \E i \in DOMAIN DocActionsMap(last.view) :
          DocActionsMap(last.view)[i][2] \notin DOMAIN LastSections
    /\ last.docstring = Description(last.view)

\* C4 (as stated): the docstring assembled by _get_doc holds at most
\* len(self.methods) method-labeled sections, and the body under each label is the
\* trimmed body of the parsed section.
C4_AtMostNSections ==
    ReachedDoc =>
        /\ Len(last.doc_entries) <= Len(last.methods)
        /\ \A n \in DOMAIN last.doc_entries :
              last.doc_entries[n].body = strip(LastSections[last.doc_entries[n].key])

\* C5: outside the explicit request/response mode, a non-None serializer_class
\* fills input_fields unless the method set is exactly {GET, OPTIONS}, where it
\* fills output_fields, never both; a declared response_serializer_class always
\* fills output_fields, replacing what serializer_class put there.
C5_SerializerRoles ==
    (last.built /\ last.exc = "none" /\ ~last.view.req_res) =>
        LET sc == last.view.serializer_class
            rsc == last.view.response_serializer_class
            read_only == Range(last.methods) = {GET, OPTIONS}
        IN /\ (sc.state = "class" /\ ~read_only) =>
                 last.input_fields = <<_get_serializer_fields(sc.ser)>>
           /\ (sc.state = "class" /\ read_only) => last.input_fields = <<>>
           /\ (sc.state = "class" /\ read_only /\ rsc.state = "absent") =>
                 last.output_fields = <<_get_serializer_fields(sc.ser)>>
           /\ (sc.state = "class" /\ ~read_only /\ rsc.state = "absent") =>
                 last.output_fields = <<>>
           /\ sc.state # "class" => last.input_fields = <<>>
           /\ rsc.state = "class" =>
                 last.output_fields = <<_get_serializer_fields(rsc.ser)>>
           /\ (sc.state # "class" /\ rsc.state = "absent") => last.output_fields = <<>>

C5_Witness ==
    /\ last.built /\ last.exc = "none" /\ ~last.view.req_res
    /\ last.view.serializer_class.state = "class"
    /\ last.view.response_serializer_class.state = "class"
    /\ Range(last.methods) = {GET, OPTIONS}
    /\ last.input_fields = <<>>
    /\ last.output_fields = <<_get_serializer_fields(ResponseSerializer)>>

----------------------------------------------------------------------------
(* Specification of concurrent construction: each thread runs the first    *)
(* statements of __init__; the interpreter may switch threads between the  *)
(* read of line 15 and the load and the store of line 18.                  *)

Threads == 1..MaxThreads

InitThreads ==
    /\ counter = 0
    /\ ids = <<>>
    /\ last = NoBuild
    /\ tpc = [t \in Threads |-> "start"]
    /\ tid = [t \in Threads |-> 0]
    /\ treg = [t \in Threads |-> 0]
    /\ tbuilt = [t \in Threads |-> 0]
    /\ IdleParse /\ IdlePath /\ IdleFields

\* line 15: self.id = Endpoint.counter
ReadId(t) ==
    /\ tpc[t] = "start" /\ tbuilt[t] < MaxPerThread
    /\ tid' = [tid EXCEPT ![t] = counter]
    /\ ids' = Append(ids, counter)
    /\ tpc' = [tpc EXCEPT ![t] = "load"]
    /\ UNCHANGED <<counter, last, treg, tbuilt, parseVars, pathVars, fieldVars>>

\* line 18, first half: load Endpoint.counter
LoadCounter(t) ==
    /\ tpc[t] = "load"
    /\ treg' = [treg EXCEPT ![t] = counter]
    /\ tpc' = [tpc EXCEPT ![t] = "store"]
    /\ UNCHANGED <<counter, ids, last, tid, tbuilt, parseVars, pathVars, fieldVars>>

\* line 18, second half: store the loaded value plus one
StoreCounter(t) ==
    /\ tpc[t] = "store"
    /\ counter' = treg[t] + 1
    /\ tpc' = [tpc EXCEPT ![t] = "rest"]
    /\ UNCHANGED <<ids, last, tid, treg, tbuilt, parseVars, pathVars, fieldVars>>

\* lines 20-51: the rest of __init__, which touches neither id nor counter
FinishInit(t) ==
    /\ tpc[t] = "rest"
    /\ tbuilt' = [tbuilt EXCEPT ![t] = @ + 1]
    /\ tpc' = [tpc EXCEPT ![t] = "start"]
    /\ UNCHANGED <<counter, ids, last, tid, treg, parseVars, pathVars, fieldVars>>

NextThreads ==
    \E t \in Threads :
        \/ ReadId(t)
        \/ LoadCounter(t)
        \/ StoreCounter(t)
        \/ FinishInit(t)

SpecThreads == InitThreads /\ [][NextThreads]_vars

\* C2 (as stated): under every interleaving no two Endpoints receive the same id,
\* and no increment is lost: once k constructions have run line 18 to its end the
\* counter has advanced by exactly k.
C2_AtomicCounter ==
    /\ \A i, j \in DOMAIN ids : i # j => ids[i] # ids[j]
    /\ (\A t \in Threads : tpc[t] \in {"start", "rest"}) => counter = Len(ids)

====
